---- MODULE Spec2Model ----
(***************************************************************************)
(* Verification model of the TPM2 quote checker of tpm2-tools:             *)
(*   - tpm2_util_get_digest_from_quote (lib/tpm2_util.c), the hand-written *)
(*     decoder of a TPM2B_ATTEST quote;                                    *)
(*   - tpm2_checkquote (tools/misc/tpm2_checkquote.c): on_option, init and *)
(*     verify_signature, run by tpm2_tool_onrun.                           *)
(* Unsigned integers wider than 16 bits are kept as their bytes, most      *)
(* significant first, so that byte order is something the model computes.  *)
(***************************************************************************)
EXTENDS Integers, Sequences, FiniteSets, TLC

VARIABLES
    quoted,     \* the TPM2B_ATTEST handed to the decoder: [size, attestationData]
    hostBig,    \* what tpm2_util_is_big_endian() answers on this host
    dec,        \* the decoder's frame: position, locals, outputs, bytes read
    out0,       \* the two output structures as they were when the decoder was called
    fx,         \* how the blob under test was built (fixture and edit)
    pc,         \* tpm2_checkquote: where the run stands
    ctx,        \* tpm2_checkquote: the static tpm2_verifysig_ctx
    opts,       \* tpm2_checkquote: the option keys on_option has been given
    env,        \* tpm2_checkquote: the inputs as loaded (files, key, nonce) and the arguments of RSA_verify
    calls,      \* tpm2_checkquote: the steps invoked so far, in order
    rc          \* tpm2_checkquote: what the run returned, and the error it logged

decVars == <<quoted, hostBig, dec, out0, fx>>

runVars == <<pc, ctx, opts, env, calls, rc>>

vars == <<quoted, hostBig, dec, out0, fx, pc, ctx, opts, env, calls, rc>>

----------------------------------------------------------------------------
(* Bytes and fixed-width integers *)

Reverse(s) == [k \in 1..Len(s) |-> s[Len(s) + 1 - k]]

Max(a, b) == IF a >= b THEN a ELSE b

Min(a, b) == IF a <= b THEN a ELSE b

Zeros(n) == [k \in 1..n |-> 0]

Fill(n, v) == [k \in 1..n |-> v]

\* The bytes of a 16-bit value, most significant first, and back.
Bytes16(v) == <<v \div 256, v % 256>>

Val16(b) == b[1] * 256 + b[2]

\* The bytes of a small count as a 32-bit value, most significant first.
Bytes32(v) == <<0, 0, v \div 256, v % 256>>

\* The value of a fixed-width object whose memory holds the bytes mem, as its
\* bytes most significant first: memory order on a big-endian host, reversed
\* on a little-endian one.
HostValue(mem, big) == IF big THEN mem ELSE Reverse(mem)

\* tmp[i] = bytes[sizeof - i - 1]: the bytes of the value in reversed order.
tpm2_util_endian_swap(w) == Reverse(w)

tpm2_util_endian_swap_16(v) == Val16(tpm2_util_endian_swap(Bytes16(v)))

tpm2_util_endian_swap_32(w) == tpm2_util_endian_swap(w)

\* j < pcrSelCount for a 32-bit count kept as bytes and a loop counter below 2^16.
CountAbove(w, j) == w[1] # 0 \/ w[2] # 0 \/ j < w[3] * 256 + w[4]

----------------------------------------------------------------------------
(* Program constants *)

TPM2_GENERATED_VALUE == <<255, 84, 67, 71>>     \* 0xFF544347

TPM2_ST_ATTEST_QUOTE == 32792                   \* 0x8018

\* sizeof(TPM2B_DIGEST.buffer) and sizeof(TPM2B_DATA.buffer): the capacities
\* TPM2B_TYPE_INIT stores in .size of quoteHash and quoteExtraData.
DIGEST_CAP == 64

DATA_CAP == 66

\* TPM2_ALG_ID values
TPM2_ALG_ERROR == 0

TPM2_ALG_SHA1 == 4

TPM2_ALG_SHA256 == 11

TPM2_ALG_SM3_256 == 18

TPM2_ALG_RSASSA == 20

TPM2_ALG_RSAPSS == 22

\* The length of an RSA-2048 signature, which RSA_verify requires of siglen.
RSA_SIZE == 256

----------------------------------------------------------------------------
(* tpm2_util_get_digest_from_quote, one operator per field of the quote *)

\* quoted->attestationData[k]; a byte outside the buffer reads as 0.
Rd(q, k) == IF k < Len(q.attestationData) THEN q.attestationData[k + 1] ELSE 0

\* memcpy(&x, &quoted->attestationData[i], w): the w bytes at offset i.
Bytes(q, i, w) == [k \in 1..w |-> Rd(q, i + k - 1)]

\* memcpy into a 16-bit object followed by the swap the code makes on a
\* little-endian host.
Load16(q, i, big) ==
    LET v == Val16(HostValue(Bytes(q, i, 2), big))
    IN  IF ~big THEN tpm2_util_endian_swap_16(v) ELSE v

Load32(q, i, big) ==
    LET w == HostValue(Bytes(q, i, 4), big)
    IN  IF ~big THEN tpm2_util_endian_swap_32(w) ELSE w

\* memcpy(&dst->buffer, src, n) into a buffer of cap bytes: the first cap
\* bytes land in the buffer, the rest is written past its end.
CopyInto(buffer, src, cap) ==
    [k \in 1..cap |-> IF k <= Len(src) THEN src[k] ELSE buffer[k]]

PastEnd(src, cap) == IF Len(src) > cap THEN SubSeq(src, cap + 1, Len(src)) ELSE <<>>

\* quoted->size, the bound of every test of the decoder.
QuotedSize_Capacity(q) == Len(q.attestationData) + 1024

QuotedSize(q) == q.size

\* The bounds tests of the decoder.
HeaderShort_NoWidth(i, w, size) == i >= size

HeaderShort_Inclusive(i, w, size) == i + w > size

HeaderShort(i, w, size) == i + w >= size

SkipShort_Never(i, size) == FALSE

SkipShort(i, size) == i >= size

PayloadShort_NoOffset(n, i, size) == n > size

PayloadShort(n, i, size) == n + i > size

Fail(s, msg) == [s EXCEPT !.pc = "ret", !.ret = FALSE, !.err = msg]

Read(s, i, w) == [s EXCEPT !.readEnd = Max(@, i + w), !.nreads = @ + 1]

DecStart(dg, xd) ==
    [pc |-> "hdr", i |-> 0, j |-> 0, pcrSelCount |-> <<0, 0, 0, 0>>, ret |-> FALSE,
     err |-> "", digest |-> dg, extraData |-> xd, pastExtra |-> <<>>,
     pastDigest |-> <<>>, readEnd |-> 0, nreads |-> 0]

\* The header step without the test of the type.
DecHdr_NoType(q, big, s) ==
    IF QuotedSize(q) < 6 THEN Fail(s, "Malformed TPM2B_ATTEST headers")
    ELSE LET t == [Read(Read(s, 0, 4), 4, 2) EXCEPT !.i = 6]
         IN  IF Load32(q, 0, big) # TPM2_GENERATED_VALUE
                 THEN Fail(t, "Malformed TPM2_GENERATED magic value")
             ELSE [t EXCEPT !.pc = "name"]

\* lines 25-46: the required headers, magic and type
DecHdr(q, big, s) ==
    IF QuotedSize(q) < 6 THEN Fail(s, "Malformed TPM2B_ATTEST headers")
    ELSE LET magic == Load32(q, 0, big)
             type == Load16(q, 4, big)
             t == [Read(Read(s, 0, 4), 4, 2) EXCEPT !.i = 6]
         IN  IF magic # TPM2_GENERATED_VALUE
                 THEN Fail(t, "Malformed TPM2_GENERATED magic value")
             ELSE IF type # TPM2_ST_ATTEST_QUOTE
                 THEN Fail(t, "Malformed TPMI_ST_ATTEST quote value")
             ELSE [t EXCEPT !.pc = "name"]

\* The name step with i += nameSize made twice.
DecName_Doubled(q, big, s) ==
    IF HeaderShort(s.i, 2, QuotedSize(q)) THEN Fail(s, "Malformed TPM2B_NAME value")
    ELSE LET nameSize == Load16(q, s.i, big)
         IN  [Read(s, s.i, 2) EXCEPT !.i = s.i + 2 + nameSize + nameSize, !.pc = "extra"]

\* lines 48-57: qualified signer name, skipped without a test of its length
DecName(q, big, s) ==
    IF HeaderShort(s.i, 2, QuotedSize(q)) THEN Fail(s, "Malformed TPM2B_NAME value")
    ELSE LET nameSize == Load16(q, s.i, big)
         IN  [Read(s, s.i, 2) EXCEPT !.i = s.i + 2 + nameSize, !.pc = "extra"]

\* lines 59-72: extra data; its size is stored in the output before it is tested
DecExtra(q, big, s) ==
    IF HeaderShort(s.i, 2, QuotedSize(q)) THEN Fail(s, "Malformed TPM2B_DATA value")
    ELSE LET n == Load16(q, s.i, big)
             i2 == s.i + 2
             t == [Read(s, s.i, 2) EXCEPT !.i = i2, !.extraData.size = n]
         IN  IF PayloadShort(n, i2, QuotedSize(q))
                 THEN Fail(t, "Malformed extraData TPM2B_DATA value")
             ELSE LET src == Bytes(q, i2, n)
                  IN  [(IF n > 0 THEN Read(t, i2, n) ELSE t) EXCEPT
                           !.extraData.buffer = CopyInto(@, src, DATA_CAP),
                           !.pastExtra = PastEnd(src, DATA_CAP),
                           !.i = i2 + n,
                           !.pc = "clock"]

\* lines 74-79: clock info, skipped
DecClock(q, big, s) ==
    LET t == [s EXCEPT !.i = s.i + 17]
    IN  IF SkipShort(t.i, QuotedSize(q)) THEN Fail(t, "Malformed TPMS_CLOCK_INFO value")
        ELSE [t EXCEPT !.pc = "fw"]

\* lines 81-86: firmware version, skipped
DecFw(q, big, s) ==
    LET t == [s EXCEPT !.i = s.i + 8]
    IN  IF SkipShort(t.i, QuotedSize(q)) THEN Fail(t, "Malformed firmware version value")
        ELSE [t EXCEPT !.pc = "selcount"]

\* lines 88-99: the count of PCR selections
DecSelCount(q, big, s) ==
    IF HeaderShort(s.i, 4, QuotedSize(q)) THEN Fail(s, "Malformed TPML_PCR_SELECTION value")
    ELSE [Read(s, s.i, 4) EXCEPT !.pcrSelCount = Load32(q, s.i, big),
                                 !.i = s.i + 4, !.j = 0, !.pc = "sel"]

\* lines 100-124: the loop test and one iteration of the selection loop
DecSel(q, big, s) ==
    IF ~CountAbove(s.pcrSelCount, s.j) THEN [s EXCEPT !.pc = "digest"]
    ELSE IF HeaderShort(s.i, 2, QuotedSize(q))
        THEN Fail(s, "Malformed TPMS_PCR_SELECTION value")
    ELSE LET t == [Read(s, s.i, 2) EXCEPT !.i = s.i + 2]
         IN  IF HeaderShort(t.i, 1, QuotedSize(q))
                 THEN Fail(t, "Malformed TPMS_PCR_SELECTION value")
             ELSE LET sos == Rd(q, t.i)
                      u == [Read(t, t.i, 1) EXCEPT !.i = t.i + 1 + sos]
                  IN  IF SkipShort(u.i, QuotedSize(q))
                          THEN Fail(u, "Malformed TPMS_PCR_SELECTION value")
                      ELSE [u EXCEPT !.j = s.j + 1]

\* lines 126-142: the digest; its size is stored in the output before it is tested
DecDigest(q, big, s) ==
    IF HeaderShort(s.i, 2, QuotedSize(q)) THEN Fail(s, "Malformed TPM2B_DIGEST value")
    ELSE LET n == Load16(q, s.i, big)
             i2 == s.i + 2
             t == [Read(s, s.i, 2) EXCEPT !.i = i2, !.digest.size = n]
         IN  IF PayloadShort(n, i2, QuotedSize(q))
                 THEN Fail(t, "Malformed TPM2B_DIGEST value")
             ELSE LET src == Bytes(q, i2, n)
                  IN  [(IF n > 0 THEN Read(t, i2, n) ELSE t) EXCEPT
                           !.digest.buffer = CopyInto(@, src, DIGEST_CAP),
                           !.pastDigest = PastEnd(src, DIGEST_CAP),
                           !.pc = "ret", !.ret = TRUE]

DecStep(q, big, s) ==
    CASE s.pc = "hdr" -> DecHdr(q, big, s)
      [] s.pc = "name" -> DecName(q, big, s)
      [] s.pc = "extra" -> DecExtra(q, big, s)
      [] s.pc = "clock" -> DecClock(q, big, s)
      [] s.pc = "fw" -> DecFw(q, big, s)
      [] s.pc = "selcount" -> DecSelCount(q, big, s)
      [] s.pc = "sel" -> DecSel(q, big, s)
      [] s.pc = "digest" -> DecDigest(q, big, s)
      [] OTHER -> s

RECURSIVE DecRun(_, _, _)
DecRun(q, big, s) == IF s.pc = "ret" THEN s ELSE DecRun(q, big, DecStep(q, big, s))

\* The whole call: the frame at its return.
tpm2_util_get_digest_from_quote(q, big, dg, xd) == DecRun(q, big, DecStart(dg, xd))

----------------------------------------------------------------------------
(* The quotes the decoder is run on: fixtures laid out field by field, then *)
(* cut short or altered in one byte                                        *)

MaxName == 1

MaxSel == 1

MaxTrail == 1

Names == {Fill(n, 7) : n \in 0..MaxName}

ShortExtras == {<<>>, <<222, 173, 190, 239>>}

LongExtras == {Fill(DATA_CAP + 1, 17)}

Selections == {[hash |-> 11, select |-> <<>>], [hash |-> 11, select |-> <<3>>]}

SelLists == UNION {[1..n -> Selections] : n \in 0..MaxSel}

ShortDigests == {<<>>, <<170>>, Fill(32, 170)}

LongDigests == {Fill(DIGEST_CAP + 1, 170)}

Trails == {Fill(n, 0) : n \in 0..MaxTrail}

Fixture(N, E, S, D, T) ==
    {[name |-> n, extra |-> e, sels |-> s, digest |-> d, trail |-> t] :
        n \in N, e \in E, s \in S, d \in D, t \in T}

ShortFixtures == Fixture(Names, ShortExtras, SelLists, ShortDigests, Trails)

LongFixtures ==
    Fixture({<<>>}, LongExtras, {<<>>}, ShortDigests \cup LongDigests, {<<>>})
        \cup Fixture({<<>>}, ShortExtras, {<<>>}, LongDigests, {<<>>})

RECURSIVE SelBytes(_)
SelBytes(sels) ==
    IF sels = <<>> THEN <<>>
    ELSE Bytes16(sels[1].hash) \o <<Len(sels[1].select)>> \o sels[1].select
             \o SelBytes(Tail(sels))

\* Where the length prefix of the final digest field starts.
DigestOffset(f) == 6 + 2 + Len(f.name) + 2 + Len(f.extra) + 17 + 8 + 4 + Len(SelBytes(f.sels))

QuoteBytes(f) ==
    TPM2_GENERATED_VALUE \o Bytes16(TPM2_ST_ATTEST_QUOTE)
        \o Bytes16(Len(f.name)) \o f.name
        \o Bytes16(Len(f.extra)) \o f.extra
        \o Zeros(17) \o Zeros(8)
        \o Bytes32(Len(f.sels)) \o SelBytes(f.sels)
        \o Bytes16(Len(f.digest)) \o f.digest
        \o f.trail

PokeValues == {0, 255}

\* Where the count of PCR selections starts.
SelCountOffset(f) == 6 + 2 + Len(f.name) + 2 + Len(f.extra) + 17 + 8

\* The length prefixes and the selection count, each as offset and width.
Prefixes(f) ==
    {<<6, 2>>, <<6 + 2 + Len(f.name), 2>>, <<SelCountOffset(f), 4>>, <<DigestOffset(f), 2>>}

\* A quote is left as it is, cut at a length, altered in one byte, or has
\* one prefix set to the largest value of its width.
Edits(f) ==
    {[kind |-> "none", at |-> 0, val |-> 0]}
        \cup {[kind |-> "trunc", at |-> L, val |-> 0] : L \in 0..(Len(QuoteBytes(f)) - 1)}
        \cup {[kind |-> "poke", at |-> p, val |-> v] :
                 p \in 0..(Len(QuoteBytes(f)) - 1), v \in PokeValues}
        \cup {[kind |-> "max", at |-> p[1], val |-> p[2]] : p \in Prefixes(f)}

Edited(f, e) ==
    LET b == QuoteBytes(f)
        data == CASE e.kind = "trunc" -> SubSeq(b, 1, e.at)
                  [] e.kind = "poke" -> [b EXCEPT ![e.at + 1] = e.val]
                  [] e.kind = "max" ->
                         [k \in 1..Len(b) |->
                             IF k > e.at /\ k <= e.at + e.val THEN 255 ELSE b[k]]
                  [] OTHER -> b
    IN  [size |-> Len(data), attestationData |-> data]

\* The outputs as the caller passes them: ctx.quoteHash and ctx.quoteExtraData
\* of tpm2_checkquote, .size preset to the capacity and the buffer zeroed.
FreshDigest == [size |-> DIGEST_CAP, buffer |-> Zeros(DIGEST_CAP)]

FreshData == [size |-> DATA_CAP, buffer |-> Zeros(DATA_CAP)]


----------------------------------------------------------------------------
(* The capabilities tpm2_checkquote calls: hashing, RSA verification, the   *)
(* loaders of its input files                                              *)

RECURSIVE WeightedSum(_, _, _)
WeightedSum(data, lo, hi) ==
    IF lo > hi THEN 0
    ELSE IF lo = hi THEN (lo * data[lo]) % 251
    ELSE LET mid == (lo + hi) \div 2
         IN  (WeightedSum(data, lo, mid) + WeightedSum(data, mid + 1, hi)) % 251

\* The digest length of a hash algorithm OpenSSL is asked for; 0 for one the
\* tool cannot map to a message digest.
HashLen(alg) ==
    CASE alg = TPM2_ALG_SHA1 -> 20
      [] alg = TPM2_ALG_SHA256 -> 32
      [] OTHER -> 0

\* The digest bytes of data under alg: a function of alg and of every byte.
DigestBytes(alg, data) == Fill(HashLen(alg), (WeightedSum(data, 1, Len(data)) + Len(data)) % 251)

\* tpm2_openssl_hash_compute_data(halg, buffer, length, &digest): false for an
\* algorithm without a message digest, else the digest is stored.
HashCompute(alg, data, digest) ==
    IF HashLen(alg) = 0 THEN [ok |-> FALSE, digest |-> digest]
    ELSE [ok |-> TRUE,
          digest |-> [size |-> HashLen(alg),
                      buffer |-> CopyInto(digest.buffer, DigestBytes(alg, data), DIGEST_CAP)]]

\* tpm2_openssl_halgid_from_tpmhalg: the OpenSSL digest id, 0 for NID_undef.
HalgId(alg) == IF HashLen(alg) = 0 THEN 0 ELSE alg

\* RSA_verify(type, m, m_len, sigbuf, siglen, rsa): the signature bytes are a
\* PKCS#1 v1.5 signature made with the key rsa over the digest m of kind type.
RSA_verify(type, m, sig, siglen, rsa) ==
    /\ type # 0
    /\ siglen = RSA_SIZE
    /\ sig.key = rsa
    /\ sig.nid = type
    /\ sig.dig = m

\* The bytes a TPM2B structure holds (memcmp and the digest loop read them
\* from the buffer; past its capacity they read 0 here).
Held(b) == [k \in 1..b.size |-> IF k <= Len(b.buffer) THEN b.buffer[k] ELSE 0]

----------------------------------------------------------------------------
(* tpm2_util_hex_to_byte_structure and tpm2_util_verify_digests *)

\* The characters isxdigit accepts, each with the value strtol gives it in
\* base 16.
HexDigits ==
    [c \in {"0", "1", "2", "3", "4", "5", "6", "7", "8", "9",
            "a", "b", "c", "d", "e", "f", "A", "B", "C", "D", "E", "F"} |->
        CASE c = "0" -> 0 [] c = "1" -> 1 [] c = "2" -> 2 [] c = "3" -> 3
          [] c = "4" -> 4 [] c = "5" -> 5 [] c = "6" -> 6 [] c = "7" -> 7
          [] c = "8" -> 8 [] c = "9" -> 9
          [] c \in {"a", "A"} -> 10 [] c \in {"b", "B"} -> 11
          [] c \in {"c", "C"} -> 12 [] c \in {"d", "D"} -> 13
          [] c \in {"e", "E"} -> 14 [] c \in {"f", "F"} -> 15]

isxdigit(c) == c \in DOMAIN HexDigits

\* The function without the test of *byteLength.
tpm2_util_hex_to_byte_structure_NoCapacityTest(inStr, byteLength, byteBuffer) ==
    LET strLength == Len(inStr)
        same(r) == [ret |-> r, byteLength |-> byteLength, byteBuffer |-> byteBuffer]
    IN  IF strLength % 2 # 0 THEN same(-2)
        ELSE IF \E i \in 1..strLength : ~isxdigit(inStr[i]) THEN same(-3)
        ELSE [ret |-> 0,
              byteLength |-> strLength \div 2,
              byteBuffer |->
                  [k \in 1..Len(byteBuffer) |->
                      IF k <= strLength \div 2
                          THEN 16 * HexDigits[inStr[2 * k - 1]] + HexDigits[inStr[2 * k]]
                          ELSE byteBuffer[k]]]

\* inStr is a sequence of characters; the result is the return value with
\* *byteLength and byteBuffer as the call leaves them.
tpm2_util_hex_to_byte_structure(inStr, byteLength, byteBuffer) ==
    LET strLength == Len(inStr)
        same(r) == [ret |-> r, byteLength |-> byteLength, byteBuffer |-> byteBuffer]
    IN  IF strLength % 2 # 0 THEN same(-2)
        ELSE IF \E i \in 1..strLength : ~isxdigit(inStr[i]) THEN same(-3)
        ELSE IF byteLength < strLength \div 2 THEN same(-4)
        ELSE [ret |-> 0,
              byteLength |-> strLength \div 2,
              byteBuffer |->
                  [k \in 1..Len(byteBuffer) |->
                      IF k <= strLength \div 2
                          THEN 16 * HexDigits[inStr[2 * k - 1]] + HexDigits[inStr[2 * k]]
                          ELSE byteBuffer[k]]]

tpm2_util_verify_digests_WholeBuffer(quoteDigest, pcrDigest) ==
    /\ quoteDigest.size = pcrDigest.size
    /\ quoteDigest.buffer = pcrDigest.buffer

tpm2_util_verify_digests_NoSizeTest(quoteDigest, pcrDigest) ==
    \A k \in 1..Min(quoteDigest.size, DIGEST_CAP) : quoteDigest.buffer[k] = pcrDigest.buffer[k]

tpm2_util_verify_digests_SizeOnly(quoteDigest, pcrDigest) ==
    quoteDigest.size = pcrDigest.size

tpm2_util_verify_digests(quoteDigest, pcrDigest) ==
    /\ quoteDigest.size = pcrDigest.size
    /\ \A k \in 1..quoteDigest.size : Held(quoteDigest)[k] = Held(pcrDigest)[k]

----------------------------------------------------------------------------
(* The static ctx of tpm2_checkquote and the memory behind its quote buffers *)

\* Signature bytes that are no signature of any key.
Garbage == [key |-> "nobody", nid |-> 0, dig |-> <<>>]

NoSignature == [sigAlg |-> 0, hash |-> 0, size |-> 0, sig |-> Garbage]

\* lines 46-54
CtxInit ==
    [flags |-> [halg |-> FALSE, msg |-> FALSE, sig |-> FALSE, pcr |-> FALSE,
                extra |-> FALSE, fmt |-> FALSE],
     format |-> TPM2_ALG_ERROR,
     halg |-> TPM2_ALG_SHA1,
     msgHash |-> FreshDigest,
     pcrHash |-> FreshDigest,
     quoteHash |-> FreshDigest,
     quoteExtraData |-> FreshData,
     extraData |-> FreshData,
     signature |-> NoSignature,
     pubkey_file_path |-> FALSE]

\* A 16-bit member as it lies in memory, and back.
Mem16(v, big) == HostValue(Bytes16(v), big)

Un16(mem, big) == Val16(HostValue(mem, big))

\* The members that follow quoteHash.buffer in struct tpm2_verifysig_ctx, as
\* bytes: quoteExtraData, extraData, and of signature the members sigAlg,
\* hash and sig.size that precede the signature bytes.
TailOf(c, big) ==
    Mem16(c.quoteExtraData.size, big) \o c.quoteExtraData.buffer
        \o Mem16(c.extraData.size, big) \o c.extraData.buffer
        \o Mem16(c.signature.sigAlg, big) \o Mem16(c.signature.hash, big)
        \o Mem16(c.signature.size, big)

Overlay(mem, at, bytes) ==
    [k \in 1..Len(mem) |->
        IF k > at /\ k <= at + Len(bytes) THEN bytes[k - at] ELSE mem[k]]

\* ctx with the members after quoteHash.buffer read back from memory; bytes
\* written further than sig.size fall on the signature bytes.
WithTail(c, mem, reach, big) ==
    LET a == 2 + DATA_CAP
        b == 2 * a
    IN  [c EXCEPT
            !.quoteExtraData = [size |-> Un16(SubSeq(mem, 1, 2), big),
                                buffer |-> SubSeq(mem, 3, a)],
            !.extraData = [size |-> Un16(SubSeq(mem, a + 1, a + 2), big),
                           buffer |-> SubSeq(mem, a + 3, b)],
            !.signature = [sigAlg |-> Un16(SubSeq(mem, b + 1, b + 2), big),
                           hash |-> Un16(SubSeq(mem, b + 3, b + 4), big),
                           size |-> Un16(SubSeq(mem, b + 5, b + 6), big),
                           sig |-> IF reach > Len(mem) THEN Garbage ELSE @.sig]]

\* ctx after tpm2_util_get_digest_from_quote(msg, &ctx.quoteHash,
\* &ctx.quoteExtraData) returned frame r: the two outputs, and the bytes each
\* memcpy wrote past its buffer laid over the members that follow it.
AfterDecode(c, r, big) ==
    LET c1 == [c EXCEPT !.quoteHash = r.digest, !.quoteExtraData = r.extraData]
        a == 2 + DATA_CAP
        m1 == Overlay(TailOf(c1, big), a, r.pastExtra)
        m2 == Overlay(m1, 0, r.pastDigest)
        reach == Max(IF r.pastExtra = <<>> THEN 0 ELSE a + Len(r.pastExtra),
                     Len(r.pastDigest))
    IN  IF r.pastExtra = <<>> /\ r.pastDigest = <<>> THEN c1
        ELSE WithTail(c1, m2, reach, big)

----------------------------------------------------------------------------
(* The decoder run step by step on every quote of the fixtures *)

InitDecode ==
    \E f \in ShortFixtures \cup LongFixtures, big \in BOOLEAN :
        \E e \in (IF f \in ShortFixtures THEN Edits(f) ELSE {[kind |-> "none", at |-> 0, val |-> 0]}) :
            /\ fx = [f |-> f, edit |-> e]
            /\ quoted = Edited(f, e)
            /\ hostBig = big
            /\ out0 = [digest |-> FreshDigest, extraData |-> FreshData]
            /\ dec = DecStart(FreshDigest, FreshData)
            /\ pc = "off" /\ ctx = <<>> /\ opts = {} /\ env = <<>> /\ calls = <<>>
            /\ rc = [code |-> "none", err |-> ""]

QuoteHdr ==
    /\ dec.pc = "hdr"
    /\ dec' = DecHdr(quoted, hostBig, dec)
    /\ UNCHANGED <<quoted, hostBig, out0, fx>>
    /\ UNCHANGED runVars

QuoteName ==
    /\ dec.pc = "name"
    /\ dec' = DecName(quoted, hostBig, dec)
    /\ UNCHANGED <<quoted, hostBig, out0, fx>>
    /\ UNCHANGED runVars

QuoteExtra ==
    /\ dec.pc = "extra"
    /\ dec' = DecExtra(quoted, hostBig, dec)
    /\ UNCHANGED <<quoted, hostBig, out0, fx>>
    /\ UNCHANGED runVars

QuoteClock ==
    /\ dec.pc = "clock"
    /\ dec' = DecClock(quoted, hostBig, dec)
    /\ UNCHANGED <<quoted, hostBig, out0, fx>>
    /\ UNCHANGED runVars

QuoteFw ==
    /\ dec.pc = "fw"
    /\ dec' = DecFw(quoted, hostBig, dec)
    /\ UNCHANGED <<quoted, hostBig, out0, fx>>
    /\ UNCHANGED runVars

QuoteSelCount ==
    /\ dec.pc = "selcount"
    /\ dec' = DecSelCount(quoted, hostBig, dec)
    /\ UNCHANGED <<quoted, hostBig, out0, fx>>
    /\ UNCHANGED runVars

QuoteSel ==
    /\ dec.pc = "sel"
    /\ dec' = DecSel(quoted, hostBig, dec)
    /\ UNCHANGED <<quoted, hostBig, out0, fx>>
    /\ UNCHANGED runVars

QuoteDigest ==
    /\ dec.pc = "digest"
    /\ dec' = DecDigest(quoted, hostBig, dec)
    /\ UNCHANGED <<quoted, hostBig, out0, fx>>
    /\ UNCHANGED runVars

NextDecode ==
    \/ QuoteHdr
    \/ QuoteName
    \/ QuoteExtra
    \/ QuoteClock
    \/ QuoteFw
    \/ QuoteSelCount
    \/ QuoteSel
    \/ QuoteDigest

SpecDecode == InitDecode /\ [][NextDecode]_vars

----------------------------------------------------------------------------
(* Properties of the decoder, checked under SpecDecode *)

WellFormed == fx.edit.kind = "none" /\ fx.f.trail = <<>>

Returned == dec.pc = "ret"

MagicBytes == Bytes(quoted, 0, 4)

TypeBytes == Bytes(quoted, 4, 2)

HeaderGood == MagicBytes = <<255, 84, 67, 71>> /\ TypeBytes = <<128, 24>>

\* C4: every byte the decoder reads from attestationData lies below
\* quoted->size: no read, fixed-width or payload, ends past the declared size.
C4_ReadsWithinSize == dec.readEnd <= quoted.size

\* A successful decode whose last read ends exactly at the last byte.
C4_Witness ==
    /\ Returned /\ dec.ret
    /\ dec.readEnd = quoted.size
    /\ dec.nreads >= 6

\* C5: a well-formed quote decodes, and the outputs hold exactly the extra
\* data and the digest that were laid out in it.
C5_WellFormedDecodes ==
    (WellFormed /\ Returned) =>
        /\ dec.ret
        /\ dec.extraData.size = Len(fx.f.extra)
        /\ Held(dec.extraData) = fx.f.extra
        /\ dec.digest.size = Len(fx.f.digest)
        /\ Held(dec.digest) = fx.f.digest

\* C6: a quote cut at a length below the offset of its digest field fails.
C6_TruncatedFails ==
    (fx.edit.kind = "trunc" /\ fx.edit.at < DigestOffset(fx.f) /\ Returned) => ~dec.ret

\* A quote cut one byte before its digest field, with its header intact, was
\* decoded up to a later field and rejected.
C6_Witness ==
    /\ fx.edit.kind = "trunc"
    /\ fx.edit.at = DigestOffset(fx.f) - 1
    /\ Returned /\ ~dec.ret
    /\ dec.nreads >= 4

\* C7: decode succeeds only on the magic 0xFF544347 and the type 0x8018; a
\* quote of six bytes or more with another magic or type fails and nothing
\* past its first six bytes is read.
C7_MagicAndType ==
    /\ (Returned /\ dec.ret) => HeaderGood
    /\ (quoted.size >= 6 /\ ~HeaderGood) =>
           /\ dec.readEnd <= 6
           /\ dec.pc \in {"hdr", "ret"}
           /\ Returned => (~dec.ret /\ dec.nreads = 2)

\* A quote whose type was altered, rejected after its header was read.
C7_Witness ==
    /\ fx.edit.kind = "poke" /\ fx.edit.at \in {4, 5}
    /\ quoted.size >= 6 /\ ~HeaderGood
    /\ Returned /\ ~dec.ret /\ dec.readEnd = 6

\* C8: when the decoder returns false both outputs are as they were when it
\* was called, size and bytes.
C8_FailureLeavesOutputs ==
    (Returned /\ ~dec.ret) =>
        /\ dec.digest = out0.digest
        /\ dec.extraData = out0.extraData

----------------------------------------------------------------------------
(* The inputs of a tpm2_checkquote run *)

\* Concatenated PCR values a PCR file can hold.
CompositeA == <<1, 2>>

CompositeB == <<3>>

NoEdit == [kind |-> "none", at |-> 0, val |-> 0]

BaseQuote ==
    [name |-> <<>>, extra |-> <<222, 173, 190, 239>>,
     sels |-> <<[hash |-> 11, select |-> <<3>>]>>,
     digest |-> DigestBytes(TPM2_ALG_SHA256, CompositeA), trail |-> <<>>]

\* Extra data that is longer than TPM2B_DATA.buffer by a whole TPM2B_DATA and
\* two bytes more, ending in the two bytes of TPM2_ALG_RSASSA in the byte
\* order of a big-endian or a little-endian host.
ReachingExtra(big) == Fill(2 * DATA_CAP + 2, 17) \o Mem16(TPM2_ALG_RSASSA, big)

\* A digest that is longer than TPM2B_DIGEST.buffer by a whole TPM2B_DATA and
\* two bytes more, all of them zero: copied into quoteHash it zeroes
\* quoteExtraData and the size of extraData.
ClearingDigest == Fill(DIGEST_CAP, 170) \o Zeros(2 + DATA_CAP + 2)

RunQuotes ==
    {[f |-> BaseQuote, edit |-> NoEdit],
     [f |-> [BaseQuote EXCEPT !.extra = <<1, 2, 3>>, !.digest = ClearingDigest], edit |-> NoEdit],
     [f |-> [BaseQuote EXCEPT !.extra = <<>>], edit |-> NoEdit],
     [f |-> [BaseQuote EXCEPT !.digest = DigestBytes(TPM2_ALG_SHA1, CompositeA)], edit |-> NoEdit],
     [f |-> BaseQuote, edit |-> [kind |-> "trunc", at |-> 20, val |-> 0]],
     [f |-> BaseQuote, edit |-> [kind |-> "poke", at |-> 0, val |-> 0]],
     [f |-> [BaseQuote EXCEPT !.extra = Fill(DATA_CAP + 1, 17)], edit |-> NoEdit],
     [f |-> [BaseQuote EXCEPT !.extra = ReachingExtra(TRUE)], edit |-> NoEdit],
     [f |-> [BaseQuote EXCEPT !.extra = ReachingExtra(FALSE)], edit |-> NoEdit],
     [f |-> [BaseQuote EXCEPT !.digest = Fill(DIGEST_CAP + 1, 170)], edit |-> NoEdit]}

HalgArgs == {TPM2_ALG_SHA1, TPM2_ALG_SHA256, TPM2_ALG_SM3_256, TPM2_ALG_ERROR}

FormatArgs == {TPM2_ALG_RSASSA, TPM2_ALG_RSAPSS, TPM2_ALG_ERROR}

NonceArgs ==
    {<<"d", "e", "a", "d", "b", "e", "e", "f">>, <<>>, <<"1", "1">>,
     <<"d", "e", "a">>, <<"z", "z">>}

\* The signature bytes a signature file can hold for the quote q.
SigContents(q, f) ==
    {[key |-> "AK", nid |-> n, dig |-> DigestBytes(h, Bytes(q, 0, q.size))] :
         n \in {TPM2_ALG_SHA1, TPM2_ALG_SHA256}, h \in {TPM2_ALG_SHA1, TPM2_ALG_SHA256}}
        \cup {[key |-> "other", nid |-> TPM2_ALG_SHA256,
               dig |-> DigestBytes(TPM2_ALG_SHA256, Bytes(q, 0, q.size))],
              [key |-> "AK", nid |-> TPM2_ALG_SHA256, dig |-> f.digest],
              Garbage}

PcrFiles ==
    {[readable |-> FALSE, consistent |-> FALSE, composite |-> <<>>],
     [readable |-> TRUE, consistent |-> FALSE, composite |-> <<>>],
     [readable |-> TRUE, consistent |-> TRUE, composite |-> CompositeA],
     [readable |-> TRUE, consistent |-> TRUE, composite |-> CompositeB]}

PubKeyFiles == {"missing", "not RSA", "AK", "other"}

EnvInit ==
    [sig |-> NoSignature, nonce |-> <<>>, pcr |-> [readable |-> FALSE, consistent |-> FALSE, composite |-> <<>>],
     pubKey |-> "none", rsa |-> [type |-> 0, m |-> <<>>, ret |-> FALSE]]

InitRun ==
    \E big \in BOOLEAN :
        /\ hostBig = big
        /\ quoted = [size |-> 0, attestationData |-> <<>>]
        /\ fx = [f |-> BaseQuote, edit |-> NoEdit]
        /\ dec = DecStart(FreshDigest, FreshData)
        /\ out0 = [digest |-> FreshDigest, extraData |-> FreshData]
        /\ pc = "options"
        /\ ctx = CtxInit
        /\ opts = {}
        /\ env = EnvInit
        /\ calls = <<>>
        /\ rc = [code |-> "none", err |-> ""]

----------------------------------------------------------------------------
(* on_option, lines 284-334: one action per key, each key given at most once *)

Option(key) ==
    /\ pc = "options"
    /\ key \notin opts
    /\ opts' = opts \cup {key}
    /\ UNCHANGED <<decVars, calls>>

\* on_option returned false: the options are rejected and the tool never runs
OptionRejected(msg) ==
    /\ pc' = "done"
    /\ rc' = [code |-> "bad_option", err |-> msg]

OptionTaken == pc' = pc /\ rc' = rc

OnOption_u ==
    /\ Option("u")
    /\ ctx' = [ctx EXCEPT !.pubkey_file_path = TRUE]
    /\ OptionTaken
    /\ UNCHANGED env

OnOption_g ==
    /\ Option("g")
    /\ \E value \in HalgArgs :
          IF value = TPM2_ALG_ERROR
              THEN /\ ctx' = [ctx EXCEPT !.halg = value]
                   /\ OptionRejected("Unable to convert algorithm")
              ELSE /\ ctx' = [ctx EXCEPT !.halg = value, !.flags.halg = TRUE]
                   /\ OptionTaken
    /\ UNCHANGED env

OnOption_m ==
    /\ Option("m")
    /\ ctx' = [ctx EXCEPT !.flags.msg = TRUE]
    /\ OptionTaken
    /\ UNCHANGED env

OnOption_F ==
    /\ Option("F")
    /\ \E value \in FormatArgs :
          IF value = TPM2_ALG_ERROR
              THEN /\ ctx' = [ctx EXCEPT !.format = value]
                   /\ OptionRejected("Unknown signing scheme")
              ELSE /\ ctx' = [ctx EXCEPT !.format = value, !.flags.fmt = TRUE]
                   /\ OptionTaken
    /\ UNCHANGED env

OnOption_q ==
    /\ Option("q")
    /\ \E value \in NonceArgs :
          LET r == tpm2_util_hex_to_byte_structure(value, DATA_CAP, ctx.extraData.buffer)
              c == [ctx EXCEPT !.extraData = [size |-> r.byteLength, buffer |-> r.byteBuffer]]
          IN  IF r.ret # 0
                  THEN /\ ctx' = c
                       /\ OptionRejected("Could not convert from a hex string to byte array!")
                       /\ UNCHANGED env
                  ELSE /\ ctx' = [c EXCEPT !.flags.extra = TRUE]
                       /\ OptionTaken
                       /\ env' = [env EXCEPT !.nonce = Held(c.extraData)]

OnOption_s ==
    /\ Option("s")
    /\ ctx' = [ctx EXCEPT !.flags.sig = TRUE]
    /\ OptionTaken
    /\ UNCHANGED env

OnOption_f ==
    /\ Option("f")
    /\ ctx' = [ctx EXCEPT !.flags.pcr = TRUE]
    /\ OptionTaken
    /\ UNCHANGED env

----------------------------------------------------------------------------
(* tpm2_tool_onrun, lines 355-373: init, then verify_signature *)

Finish(code, msg) == pc' = "done" /\ rc' = [code |-> code, err |-> msg]

Called(names) == calls' = calls \o names

OnRun ==
    /\ pc = "options"
    /\ pc' = "init"
    /\ UNCHANGED <<decVars, ctx, opts, env, calls, rc>>

\* init, lines 208-213
RequiredGiven_NoHalg(c) == c.pubkey_file_path /\ c.flags.sig /\ c.flags.msg

RequiredGiven(c) == c.pubkey_file_path /\ c.flags.sig /\ c.flags.msg /\ c.flags.halg

InitFlags ==
    /\ pc = "init"
    /\ Called(<<"init">>)
    /\ IF ~RequiredGiven(ctx)
           THEN Finish("option_error", "--pubkey (-c), --msg (-m), --halg (-g) and --sig (-s) are required")
           ELSE pc' = "load_msg" /\ rc' = rc
    /\ UNCHANGED <<decVars, ctx, opts, env>>

\* init, lines 220-226, and message_from_file, lines 120-146
LoadMsg ==
    /\ pc = "load_msg"
    /\ Called(<<"message_from_file">>)
    /\ \/ /\ Finish("general_error", "message_from_file")
          /\ UNCHANGED <<quoted, fx>>
       \/ \E m \in RunQuotes :
             /\ fx' = m
             /\ quoted' = Edited(m.f, m.edit)
             /\ pc' = "load_sig" /\ rc' = rc
    /\ UNCHANGED <<hostBig, dec, out0, ctx, opts, env>>

\* init, lines 228-234: tpm2_convert_sig_load; a plain signature file takes
\* its scheme and hash from the options, a TSS one brings its own
LoadSig ==
    /\ pc = "load_sig"
    /\ Called(<<"tpm2_convert_sig_load">>)
    /\ \/ /\ Finish("general_error", "tpm2_convert_sig_load")
          /\ UNCHANGED <<ctx, env>>
       \/ \E content \in SigContents(quoted, fx.f) :
          \E a \in (IF ctx.flags.fmt THEN {ctx.format} ELSE {TPM2_ALG_RSASSA, TPM2_ALG_RSAPSS}) :
          \E h \in (IF ctx.flags.fmt THEN {ctx.halg} ELSE {TPM2_ALG_SHA1, TPM2_ALG_SHA256}) :
             LET sg == [sigAlg |-> a, hash |-> h, size |-> RSA_SIZE, sig |-> content]
             IN  /\ ctx' = [ctx EXCEPT !.signature = sg]
                 /\ env' = [env EXCEPT !.sig = sg]
                 /\ pc' = "pcrs" /\ rc' = rc
    /\ UNCHANGED <<decVars, opts>>

\* init, lines 246-260: the PCR file is read and its digest recomputed before
\* the quote is decoded
LoadPcrs ==
    /\ pc = "pcrs"
    /\ IF ~ctx.flags.pcr
           THEN /\ pc' = "decode"
                /\ UNCHANGED <<ctx, env, calls, rc>>
           ELSE \E file \in PcrFiles :
                   LET h == HashCompute(ctx.halg, file.composite, ctx.pcrHash)
                   IN  /\ env' = [env EXCEPT !.pcr = file]
                       /\ IF ~file.readable
                              THEN /\ Called(<<"pcrs_from_file">>)
                                   /\ Finish("general_error", "pcrs_from_file")
                                   /\ UNCHANGED ctx
                          ELSE IF ~file.consistent \/ ~h.ok
                              THEN /\ Called(<<"pcrs_from_file", "tpm2_openssl_hash_pcr_banks">>)
                                   /\ Finish("general_error", "Failed to hash PCR values related to quote!")
                                   /\ UNCHANGED ctx
                          ELSE /\ Called(<<"pcrs_from_file", "tpm2_openssl_hash_pcr_banks">>)
                               /\ ctx' = [ctx EXCEPT !.pcrHash = h.digest]
                               /\ pc' = "decode" /\ rc' = rc
    /\ UNCHANGED <<decVars, opts>>

\* The frame the decoder returns on the loaded message.
Decoded == tpm2_util_get_digest_from_quote(quoted, hostBig, ctx.quoteHash, ctx.quoteExtraData)

\* init, lines 262-266
DecodeQuote ==
    /\ pc = "decode"
    /\ Called(<<"tpm2_util_get_digest_from_quote">>)
    /\ dec' = Decoded
    /\ out0' = [digest |-> ctx.quoteHash, extraData |-> ctx.quoteExtraData]
    /\ ctx' = AfterDecode(ctx, Decoded, hostBig)
    /\ IF ~Decoded.ret
           THEN Finish("general_error", "Failed to get digest from quote!")
           ELSE pc' = "hash" /\ rc' = rc
    /\ UNCHANGED <<quoted, hostBig, fx, opts, env>>

\* A memcpy of the decoder that writes past its destination may, in a build
\* that checks it, end the process instead.
DecodeQuoteAborts ==
    /\ pc = "decode"
    /\ Decoded.pastExtra # <<>> \/ Decoded.pastDigest # <<>>
    /\ Called(<<"tpm2_util_get_digest_from_quote">>)
    /\ Finish("aborted", "")
    /\ UNCHANGED <<decVars, ctx, opts, env>>

\* The bytes init hashes into ctx.msgHash, lines 269-270.
MessageBytes_Attested(q, c) == Held(c.quoteHash)

MessageBytes(q, c) == Bytes(q, 0, q.size)

\* init, lines 268-276
HashMsg ==
    /\ pc = "hash"
    /\ Called(<<"tpm2_openssl_hash_compute_data">>)
    /\ LET h == HashCompute(ctx.halg, MessageBytes(quoted, ctx), ctx.msgHash)
       IN  IF ~h.ok
               THEN Finish("general_error", "Compute message hash failed!") /\ UNCHANGED ctx
               ELSE ctx' = [ctx EXCEPT !.msgHash = h.digest] /\ pc' = "pubkey" /\ rc' = rc
    /\ UNCHANGED <<decVars, opts, env>>

\* verify_signature, lines 60-71
OpenPubkey ==
    /\ pc = "pubkey"
    /\ Called(<<"tpm2_openssl_get_public_RSA_from_pem">>)
    /\ \E file \in PubKeyFiles :
          /\ env' = [env EXCEPT !.pubKey = file]
          /\ CASE file = "missing" -> Finish("general_error", "Could not open RSA pubkey input file")
               [] file = "not RSA" -> Finish("general_error", "Failed to load RSA public key from file")
               [] OTHER -> pc' = "scheme" /\ rc' = rc
    /\ UNCHANGED <<decVars, ctx, opts>>

\* verify_signature, lines 73-79
SchemeRejected_Never(sg) == FALSE

SchemeRejected(sg) == sg.sigAlg # TPM2_ALG_RSASSA

SchemeCheck ==
    /\ pc = "scheme"
    /\ Called(<<"scheme">>)
    /\ IF SchemeRejected(ctx.signature)
           THEN Finish("general_error", "Only RSASSA is supported for signatures")
           ELSE pc' = "rsa" /\ rc' = rc
    /\ UNCHANGED <<decVars, ctx, opts, env>>

\* verify_signature, lines 81-87
RsaRejected_OnlyNegative(r) == FALSE

RsaRejected(r) == ~r

RsaVerify ==
    /\ pc = "rsa"
    /\ Called(<<"RSA_verify">>)
    /\ LET type == HalgId(ctx.signature.hash)
           m == Held(ctx.msgHash)
           r == RSA_verify(type, m, ctx.signature.sig, ctx.signature.size, env.pubKey)
       IN  /\ env' = [env EXCEPT !.rsa = [type |-> type, m |-> m, ret |-> r]]
           /\ IF RsaRejected(r)
                  THEN Finish("general_error", "Error validating signed message with public key provided")
                  ELSE pc' = "nonce" /\ rc' = rc
    /\ UNCHANGED <<decVars, ctx, opts>>

\* verify_signature, lines 89-98
NonceMismatch(c) ==
    \/ c.quoteExtraData.size # c.extraData.size
    \/ \E k \in 1..c.extraData.size : Held(c.quoteExtraData)[k] # Held(c.extraData)[k]

\* verify_signature, line 90: if (ctx.flags.extra)
NonceRequested_Always(c) == TRUE

NonceRequested(c) == c.flags.extra

NonceCheck ==
    /\ pc = "nonce"
    /\ IF ~NonceRequested(ctx)
           THEN pc' = "pcrcmp" /\ UNCHANGED <<calls, rc>>
           ELSE /\ Called(<<"nonce">>)
                /\ IF NonceMismatch(ctx)
                       THEN Finish("general_error", "Error validating nonce from quote")
                       ELSE pc' = "pcrcmp" /\ rc' = rc
    /\ UNCHANGED <<decVars, ctx, opts, env>>

\* verify_signature, lines 100-108, and the return of tpm2_tool_onrun
PcrCheck ==
    /\ pc = "pcrcmp"
    /\ IF ~ctx.flags.pcr
           THEN Finish("success", "") /\ UNCHANGED calls
           ELSE /\ Called(<<"tpm2_util_verify_digests">>)
                /\ IF ~tpm2_util_verify_digests(ctx.quoteHash, ctx.pcrHash)
                       THEN Finish("general_error", "Error validating PCR composite against signed message")
                       ELSE Finish("success", "")
    /\ UNCHANGED <<decVars, ctx, opts, env>>

NextRun ==
    \/ OnOption_u
    \/ OnOption_g
    \/ OnOption_m
    \/ OnOption_F
    \/ OnOption_q
    \/ OnOption_s
    \/ OnOption_f
    \/ OnRun
    \/ InitFlags
    \/ LoadMsg
    \/ LoadSig
    \/ LoadPcrs
    \/ DecodeQuote
    \/ DecodeQuoteAborts
    \/ HashMsg
    \/ OpenPubkey
    \/ SchemeCheck
    \/ RsaVerify
    \/ NonceCheck
    \/ PcrCheck

SpecRun == InitRun /\ [][NextRun]_vars

----------------------------------------------------------------------------
(* Properties of a run, checked under SpecRun *)

Invoked(name) == \E k \in 1..Len(calls) : calls[k] = name

RunEnded == pc = "done" /\ Invoked("init")

RawBytes == Bytes(quoted, 0, quoted.size)

QuoteDecodes == Invoked("tpm2_util_get_digest_from_quote") /\ dec.ret

LoadedSchemeIsRsassa == env.sig.sigAlg = TPM2_ALG_RSASSA

SignatureVerifies ==
    /\ env.pubKey \in {"AK", "other"}
    /\ RSA_verify(HalgId(env.sig.hash), DigestBytes(ctx.halg, RawBytes),
                  env.sig.sig, env.sig.size, env.pubKey)

NonceEqual ==
    ctx.flags.extra =>
        /\ Len(env.nonce) = dec.extraData.size
        /\ env.nonce = Held(dec.extraData)

PcrDigestEqual ==
    ctx.flags.pcr =>
        /\ env.pcr.readable /\ env.pcr.consistent
        /\ HashLen(ctx.halg) = dec.digest.size
        /\ DigestBytes(ctx.halg, env.pcr.composite) = Held(dec.digest)

\* C1: a run reports success exactly when the quote decodes, the loaded
\* signature is RSASSA, it verifies over the digest of the message with the
\* public key, the supplied nonce (if any) equals the decoded extra data and
\* the recomputed PCR digest (if requested) equals the decoded digest.
C1_SuccessIffAllHold ==
    RunEnded =>
        (rc.code = "success" <=>
            /\ QuoteDecodes
            /\ LoadedSchemeIsRsassa
            /\ SignatureVerifies
            /\ NonceEqual
            /\ PcrDigestEqual)

C1_Witness ==
    /\ RunEnded
    /\ rc.code = "success"
    /\ ctx.flags.extra
    /\ ctx.flags.pcr

\* C2: the nonce comparison and the PCR-digest comparison are made only after
\* RSA_verify has been called and has accepted the signature; when RSA_verify
\* rejects it the run ends with the bad-signature reason and neither
\* comparison is made.
C2_ComparisonsAfterSignature ==
    /\ (Invoked("nonce") \/ Invoked("tpm2_util_verify_digests")) =>
           /\ env.rsa.ret
           /\ \E k \in 1..Len(calls) :
                 /\ calls[k] = "RSA_verify"
                 /\ \A j \in 1..k : calls[j] \notin {"nonce", "tpm2_util_verify_digests"}
    /\ (Invoked("RSA_verify") /\ ~env.rsa.ret) =>
           /\ pc = "done"
           /\ rc.code = "general_error"
           /\ rc.err = "Error validating signed message with public key provided"
           /\ ~Invoked("nonce")
           /\ ~Invoked("tpm2_util_verify_digests")

C2_Witness ==
    /\ RunEnded
    /\ Invoked("RSA_verify")
    /\ ~env.rsa.ret
    /\ ctx.flags.extra
    /\ ctx.flags.pcr
    /\ ~NonceMismatch(ctx)
    /\ tpm2_util_verify_digests(ctx.quoteHash, ctx.pcrHash)

\* The steps of a run in the order init and verify_signature take them.
StepOrder ==
    <<"init", "message_from_file", "tpm2_convert_sig_load", "pcrs_from_file",
      "tpm2_openssl_hash_pcr_banks", "tpm2_util_get_digest_from_quote",
      "tpm2_openssl_hash_compute_data", "tpm2_openssl_get_public_RSA_from_pem",
      "scheme", "RSA_verify", "nonce", "tpm2_util_verify_digests">>

StepIndex(step) == CHOOSE k \in 1..Len(StepOrder) : StepOrder[k] = step

\* The steps a run takes only when their option was given.
StepRequested(step) ==
    CASE step \in {"pcrs_from_file", "tpm2_openssl_hash_pcr_banks",
                   "tpm2_util_verify_digests"} -> ctx.flags.pcr
      [] step = "nonce" -> ctx.flags.extra
      [] OTHER -> TRUE

\* The reason each step logs when it fails.
StepReason(step) ==
    CASE step = "init" -> "--pubkey (-c), --msg (-m), --halg (-g) and --sig (-s) are required"
      [] step = "message_from_file" -> "message_from_file"
      [] step = "tpm2_convert_sig_load" -> "tpm2_convert_sig_load"
      [] step = "pcrs_from_file" -> "pcrs_from_file"
      [] step = "tpm2_openssl_hash_pcr_banks" -> "Failed to hash PCR values related to quote!"
      [] step = "tpm2_util_get_digest_from_quote" -> "Failed to get digest from quote!"
      [] step = "tpm2_openssl_hash_compute_data" -> "Compute message hash failed!"
      [] step = "tpm2_openssl_get_public_RSA_from_pem" ->
             IF env.pubKey = "missing" THEN "Could not open RSA pubkey input file"
             ELSE "Failed to load RSA public key from file"
      [] step = "scheme" -> "Only RSASSA is supported for signatures"
      [] step = "RSA_verify" -> "Error validating signed message with public key provided"
      [] step = "nonce" -> "Error validating nonce from quote"
      [] OTHER -> "Error validating PCR composite against signed message"

\* What makes each step fail, read from what the run was given and holds.
StepFailed(step) ==
    CASE step = "init" ->
             ~(ctx.pubkey_file_path /\ ctx.flags.sig /\ ctx.flags.msg /\ ctx.flags.halg)
      [] step = "message_from_file" -> quoted.size = 0
      [] step = "tpm2_convert_sig_load" -> env.sig = NoSignature
      [] step = "pcrs_from_file" -> ~env.pcr.readable
      [] step = "tpm2_openssl_hash_pcr_banks" ->
             ~env.pcr.consistent \/ HashLen(ctx.halg) = 0
      [] step = "tpm2_util_get_digest_from_quote" -> ~dec.ret
      [] step = "tpm2_openssl_hash_compute_data" -> HashLen(ctx.halg) = 0
      [] step = "tpm2_openssl_get_public_RSA_from_pem" -> env.pubKey \in {"missing", "not RSA"}
      [] step = "scheme" -> ctx.signature.sigAlg # TPM2_ALG_RSASSA
      [] step = "RSA_verify" -> ~env.rsa.ret
      [] step = "nonce" ->
             \/ ctx.quoteExtraData.size # ctx.extraData.size
             \/ Held(ctx.quoteExtraData) # Held(ctx.extraData)
      [] OTHER ->
             \/ ctx.quoteHash.size # ctx.pcrHash.size
             \/ Held(ctx.quoteHash) # Held(ctx.pcrHash)

Rejected == RunEnded /\ rc.code \in {"option_error", "general_error"}

MessageLoaded == quoted.size > 0

MalformedQuote ==
    ~tpm2_util_get_digest_from_quote(quoted, hostBig, FreshDigest, FreshData).ret

C9_DigestOfRawBytes ==
    Invoked("RSA_verify") => env.rsa.m = DigestBytes(ctx.halg, RawBytes)

C9_Witness ==
    /\ Invoked("RSA_verify")
    /\ env.rsa.ret
    /\ dec.ret
    /\ dec.digest.size = Len(env.rsa.m)
    /\ Held(dec.digest) # env.rsa.m

\* C10: a run whose loaded signature has a scheme other than RSASSA is never
\* accepted, and RSA_verify, the nonce comparison and the PCR comparison are
\* not called in it.
C10_NonRsassaRejected ==
    (Invoked("tpm2_convert_sig_load") /\ env.sig # NoSignature
         /\ env.sig.sigAlg # TPM2_ALG_RSASSA) =>
        /\ rc.code # "success"
        /\ ~Invoked("RSA_verify")
        /\ ~Invoked("nonce")
        /\ ~Invoked("tpm2_util_verify_digests")

NonceCheckPassed == Invoked("nonce") /\ rc.err # "Error validating nonce from quote"

\* C11: when the nonce comparison is made (a nonce was supplied and decode,
\* scheme check and RSA_verify succeeded) it passes only if the supplied nonce
\* has the size and the bytes of the extra data decoded from the quote; with
\* any difference the run is rejected with the nonce reason.
C11_NonceMismatchRejected ==
    NonceCheckPassed =>
        /\ Len(env.nonce) = dec.extraData.size
        /\ env.nonce = Held(dec.extraData)

RecomputedDiffers ==
    \/ HashLen(ctx.halg) # dec.digest.size
    \/ DigestBytes(ctx.halg, env.pcr.composite) # Held(dec.digest)

\* C12: when the PCR comparison is made (PCR data was supplied and every
\* earlier step succeeded) and the digest recomputed from the PCR values under
\* --halg differs from the digest decoded from the quote, in size or in a
\* byte, the run is rejected with the PCR reason.
C12_PcrMismatchRejected ==
    Invoked("tpm2_util_verify_digests") =>
        /\ pc = "done"
        /\ RecomputedDiffers =>
               /\ rc.code = "general_error"
               /\ rc.err = "Error validating PCR composite against signed message"

\* A run rejected by the PCR comparison on two digests of the same size.
C12_Witness ==
    /\ Invoked("tpm2_util_verify_digests")
    /\ dec.digest.size = HashLen(ctx.halg)
    /\ RecomputedDiffers
    /\ rc.err = "Error validating PCR composite against signed message"

PcrSteps == {"pcrs_from_file", "tpm2_openssl_hash_pcr_banks", "tpm2_util_verify_digests"}

PcrReasons ==
    {"pcrs_from_file", "Failed to hash PCR values related to quote!",
     "Error validating PCR composite against signed message"}

\* C13: a check that was not requested is not made and rejects nothing:
\* without -q the nonce comparison is never made, without -f the PCR file is
\* never loaded, hashed or compared, and a run given neither succeeds exactly
\* when the decode, the scheme check and RSA_verify succeeded.
C13_UnrequestedNotPerformed ==
    /\ ~ctx.flags.extra =>
           /\ ~Invoked("nonce")
           /\ rc.err # "Error validating nonce from quote"
    /\ ~ctx.flags.pcr =>
           /\ \A step \in PcrSteps : ~Invoked(step)
           /\ rc.err \notin PcrReasons
    /\ (RunEnded /\ ~ctx.flags.extra /\ ~ctx.flags.pcr) =>
           (rc.code = "success" <=>
               /\ Invoked("tpm2_util_get_digest_from_quote") /\ dec.ret
               /\ Invoked("scheme") /\ ctx.signature.sigAlg = TPM2_ALG_RSASSA
               /\ Invoked("RSA_verify") /\ env.rsa.ret)

\* A run given neither -q nor -f, accepted on a quote that carries extra data.
C13_Witness ==
    /\ RunEnded
    /\ ~ctx.flags.extra /\ ~ctx.flags.pcr
    /\ rc.code = "success"
    /\ dec.extraData.size > 0

RequiredKeys == {"u", "s", "m", "g"}

\* C14: a run that was not given all of -u, -s, -m and -g is never accepted,
\* and once init is called it ends with the option error, init being the only
\* step taken: no file is loaded, nothing is decoded, hashed or verified.
C14_MissingRequiredIsOptionError ==
    ~(RequiredKeys \subseteq opts) =>
        /\ rc.code # "success"
        /\ Invoked("init") =>
               /\ pc = "done"
               /\ rc.code = "option_error"
               /\ calls = <<"init">>
               /\ quoted.size = 0
               /\ env.sig = NoSignature
               /\ env.pubKey = "none"

\* A run given everything but -g, for which ctx.halg has a default.
C14_Witness ==
    /\ Invoked("init")
    /\ opts = {"u", "s", "m", "q", "f"}
    /\ rc.code = "option_error"

----------------------------------------------------------------------------
(* Two runs of init and verify_signature in one process, as two threads.   *)
(* The static ctx is the one object of the program and both write it; a    *)
(* file path stored in ctx names the thread whose file it is. Each thread  *)
(* keeps its own locals (msg of init). pc, env, dec and rc hold one entry  *)
(* per thread.                                                             *)

PairThreads == {1, 2}

PairQuotes ==
    {Edited(BaseQuote, NoEdit), Edited([BaseQuote EXCEPT !.extra = <<17>>], NoEdit)}

\* What one caller owns: its message file, its signature file (a signature
\* of the AK over the message, or bytes that are none), its nonce argument.
PairInputs ==
    {[msg |-> m,
      sig |-> [sigAlg |-> TPM2_ALG_RSASSA, hash |-> TPM2_ALG_SHA256, size |-> RSA_SIZE,
               sig |-> IF valid
                           THEN [key |-> "AK", nid |-> TPM2_ALG_SHA256,
                                 dig |-> DigestBytes(TPM2_ALG_SHA256, Bytes(m, 0, m.size))]
                           ELSE Garbage],
      nonce |-> n] :
        m \in PairQuotes, valid \in BOOLEAN,
        n \in {<<"d", "e", "a", "d", "b", "e", "e", "f">>, <<"1", "1">>}}

PairCtxInit ==
    [msg_file_path |-> 0, sig_file_path |-> 0] @@ [CtxInit EXCEPT !.pubkey_file_path = 0]

\* on_option for -u, -g sha256, -m, -s and -q, lines 287-325
PairOnOptions(c, t, in) ==
    LET r == tpm2_util_hex_to_byte_structure(in.nonce, DATA_CAP, c.extraData.buffer)
    IN  [c EXCEPT !.pubkey_file_path = t, !.msg_file_path = t, !.sig_file_path = t,
                  !.halg = TPM2_ALG_SHA256,
                  !.flags.halg = TRUE, !.flags.msg = TRUE, !.flags.sig = TRUE,
                  !.flags.extra = TRUE,
                  !.extraData = [size |-> r.byteLength, buffer |-> r.byteBuffer]]

\* init, line 221: msg = message_from_file(ctx.msg_file_path)
PairMsgLoad(c, files) == files[c.msg_file_path].msg

\* init, line 230: tpm2_convert_sig_load(ctx.sig_file_path, ..., &ctx.signature)
PairSigLoad(c, files) == [c EXCEPT !.signature = files[c.sig_file_path].sig]

\* init, line 263
PairDecode(c, msg, big) ==
    LET r == tpm2_util_get_digest_from_quote(msg, big, c.quoteHash, c.quoteExtraData)
    IN  [ok |-> r.ret, ctx |-> AfterDecode(c, r, big)]

\* init, lines 269-270
PairHash(c, msg) ==
    [c EXCEPT !.msgHash = HashCompute(c.halg, MessageBytes(msg, c), c.msgHash).digest]

\* verify_signature, lines 60-108, with the AK as the public key
PairVerify(c) ==
    IF SchemeRejected(c.signature)
        THEN [code |-> "general_error", err |-> "Only RSASSA is supported for signatures"]
    ELSE IF RsaRejected(RSA_verify(HalgId(c.signature.hash), Held(c.msgHash),
                                   c.signature.sig, c.signature.size, "AK"))
        THEN [code |-> "general_error",
              err |-> "Error validating signed message with public key provided"]
    ELSE IF NonceRequested(c) /\ NonceMismatch(c)
        THEN [code |-> "general_error", err |-> "Error validating nonce from quote"]
    ELSE [code |-> "success", err |-> ""]

\* The outcome of one call made alone, from the ctx of program start.
PairAlone(in, big) ==
    LET files == [t \in PairThreads |-> in]
        c1 == PairOnOptions(PairCtxInit, 1, in)
        msg == PairMsgLoad(c1, files)
        c2 == PairSigLoad(c1, files)
        d == PairDecode(c2, msg, big)
    IN  IF ~d.ok THEN [code |-> "general_error", err |-> "Failed to get digest from quote!"]
        ELSE PairVerify(PairHash(d.ctx, msg))

InitPair ==
    \E big \in BOOLEAN, ins \in [PairThreads -> PairInputs] :
        /\ hostBig = big
        /\ env = ins
        /\ ctx = PairCtxInit
        /\ pc = [t \in PairThreads |-> "options"]
        /\ dec = [t \in PairThreads |-> <<>>]
        /\ rc = [t \in PairThreads |-> [code |-> "none", err |-> ""]]
        /\ quoted = <<>> /\ out0 = <<>> /\ fx = <<>> /\ opts = {} /\ calls = <<>>

PairStep(t, from, to) ==
    /\ pc[t] = from
    /\ pc' = [pc EXCEPT ![t] = to]
    /\ UNCHANGED <<quoted, hostBig, out0, fx, opts, env, calls>>

PairOptionsStep ==
    \E t \in PairThreads :
        /\ PairStep(t, "options", "load_msg")
        /\ ctx' = PairOnOptions(ctx, t, env[t])
        /\ UNCHANGED <<dec, rc>>

PairLoadMsgStep ==
    \E t \in PairThreads :
        /\ PairStep(t, "load_msg", "load_sig")
        /\ dec' = [dec EXCEPT ![t] = PairMsgLoad(ctx, env)]
        /\ UNCHANGED <<ctx, rc>>

PairLoadSigStep ==
    \E t \in PairThreads :
        /\ PairStep(t, "load_sig", "decode")
        /\ ctx' = PairSigLoad(ctx, env)
        /\ UNCHANGED <<dec, rc>>

PairDecodeStep ==
    \E t \in PairThreads :
        LET d == PairDecode(ctx, dec[t], hostBig)
        IN  /\ PairStep(t, "decode", IF d.ok THEN "hash" ELSE "done")
            /\ ctx' = d.ctx
            /\ rc' = IF d.ok THEN rc
                     ELSE [rc EXCEPT ![t] = [code |-> "general_error",
                                             err |-> "Failed to get digest from quote!"]]
            /\ UNCHANGED dec

PairHashStep ==
    \E t \in PairThreads :
        /\ PairStep(t, "hash", "verify")
        /\ ctx' = PairHash(ctx, dec[t])
        /\ UNCHANGED <<dec, rc>>

PairVerifyStep ==
    \E t \in PairThreads :
        /\ PairStep(t, "verify", "done")
        /\ rc' = [rc EXCEPT ![t] = PairVerify(ctx)]
        /\ UNCHANGED <<ctx, dec>>

NextPair ==
    \/ PairOptionsStep
    \/ PairLoadMsgStep
    \/ PairLoadSigStep
    \/ PairDecodeStep
    \/ PairHashStep
    \/ PairVerifyStep

SpecPair == InitPair /\ [][NextPair]_vars

\* C15: in two calls running concurrently, each on inputs of its own, each
\* call returns what it returns when it is run alone on those inputs.
C15_NoInterference ==
    \A t \in PairThreads : pc[t] = "done" => rc[t] = PairAlone(env[t], hostBig)

----------------------------------------------------------------------------
(* tpm2_util_verify_digests called on pairs of TPM2B_DIGEST values: sizes   *)
(* up to the capacity of the buffer, bytes that differ at the first, the    *)
(* second and the last position of the buffer. env holds the two digests,   *)
(* rc the values returned, calls the calls made.                            *)

MaxByte == 1

DigestSizes == {0, 1, 2, DIGEST_CAP}

DigestBuffers ==
    {[k \in 1..DIGEST_CAP |->
         CASE k = 1 -> x [] k = 2 -> y [] k = DIGEST_CAP -> z [] OTHER -> 0] :
        x \in 0..MaxByte, y \in 0..MaxByte, z \in 0..MaxByte}

Digests == {[size |-> n, buffer |-> b] : n \in DigestSizes, b \in DigestBuffers}

InitDigests ==
    \E a \in Digests, b \in Digests :
        /\ env = [a |-> a, b |-> b]
        /\ rc = [ab |-> FALSE, ba |-> FALSE, aa |-> FALSE]
        /\ calls = <<>>
        /\ pc = "digests"
        /\ quoted = <<>> /\ hostBig = FALSE /\ dec = <<>> /\ out0 = <<>> /\ fx = <<>>
        /\ ctx = <<>> /\ opts = {}

DigestCall(name) ==
    /\ pc = "digests"
    /\ ~Invoked(name)
    /\ Called(<<name>>)
    /\ UNCHANGED <<decVars, pc, ctx, opts, env>>

VerifyAB ==
    /\ DigestCall("verify(a, b)")
    /\ rc' = [rc EXCEPT !.ab = tpm2_util_verify_digests(env.a, env.b)]

VerifyBA ==
    /\ DigestCall("verify(b, a)")
    /\ rc' = [rc EXCEPT !.ba = tpm2_util_verify_digests(env.b, env.a)]

VerifyAA ==
    /\ DigestCall("verify(a, a)")
    /\ rc' = [rc EXCEPT !.aa = tpm2_util_verify_digests(env.a, env.a)]

NextDigests ==
    \/ VerifyAB
    \/ VerifyBA
    \/ VerifyAA

SpecDigests == InitDigests /\ [][NextDigests]_vars

\* The digest with every byte at a position >= size set to 0.
UpToSize(d) == [d EXCEPT !.buffer = [k \in 1..Len(d.buffer) |-> IF k <= d.size THEN d.buffer[k] ELSE 0]]

SameUpToSize(a, b) ==
    /\ a.size = b.size
    /\ \A k \in 1..a.size : a.buffer[k] = b.buffer[k]

\* C16: verify(a, b) is true exactly when the sizes are equal and the first
\* size bytes are equal pairwise; the bytes at positions >= size have no part
\* in it.
C16_EqualIffSizeAndBytes ==
    Invoked("verify(a, b)") =>
        /\ rc.ab = SameUpToSize(env.a, env.b)
        /\ rc.ab = SameUpToSize(UpToSize(env.a), UpToSize(env.b))

\* Two digests equal up to their size and different after it, found equal.
C16_Witness ==
    /\ Invoked("verify(a, b)")
    /\ rc.ab
    /\ env.a.size = 2
    /\ env.a.buffer # env.b.buffer

\* C17: verify(d, d) is true for every digest, the empty one included;
\* verify(a, b) = verify(b, a); digests of different sizes are never equal.
C17_ReflexiveSymmetric ==
    /\ Invoked("verify(a, a)") => rc.aa
    /\ (Invoked("verify(a, b)") /\ Invoked("verify(b, a)")) => rc.ab = rc.ba
    /\ (Invoked("verify(a, b)") /\ env.a.size # env.b.size) => ~rc.ab

\* All three calls made on an empty digest and a longer one with the same bytes.
C17_Witness ==
    /\ Len(calls) = 3
    /\ env.a.size = 0
    /\ env.b.size = DIGEST_CAP
    /\ env.a.buffer = env.b.buffer
    /\ rc.aa /\ ~rc.ab /\ ~rc.ba

----------------------------------------------------------------------------
(* The byte-order functions of tpm2_util.c on 16, 32 and 64-bit values. A   *)
(* value is its bytes, most significant first; the object that holds it has *)
(* them in memory in the order of the host. env holds the argument, rc the  *)
(* values returned, opts the calls made.                                    *)

\* test_word = 0xFF000000; test_byte[0] == 0xFF
tpm2_util_is_big_endian(big) == HostValue(<<255, 0, 0, 0>>, big)[1] = 255

\* The macro body with tmp[i] = bytes[i].
STRING_BYTES_ENDIAN_CONVERT_Copy(data, big) == data

\* bytes and tmp address the memory of data and of converted;
\* tmp[i] = bytes[sizeof - i - 1]
STRING_BYTES_ENDIAN_CONVERT(data, big) ==
    LET size == Len(data)
        bytes == HostValue(data, big)
        tmp == [i \in 1..size |-> bytes[size - (i - 1)]]
    IN  HostValue(tmp, big)

tpm2_util_hton_Always(data, big) == STRING_BYTES_ENDIAN_CONVERT(data, big)

\* STRING_BYTES_ENDIAN_HTON
tpm2_util_hton(data, big) ==
    IF tpm2_util_is_big_endian(big) THEN data
    ELSE STRING_BYTES_ENDIAN_CONVERT(data, big)

tpm2_util_ntoh_AsIs(data, big) == data

\* tpm2_util_ntoh_16, _32, _64
tpm2_util_ntoh(data, big) == tpm2_util_hton(data, big)

EndianBytes == {0, 1, 255}

EndianWidths == {2, 4, 8}

EndianValues == UNION {[1..w -> EndianBytes] : w \in EndianWidths}

NoValue == <<>>

InitEndian ==
    \E x \in EndianValues, big \in BOOLEAN :
        /\ env = [x |-> x]
        /\ hostBig = big
        /\ rc = [swap |-> NoValue, swap2 |-> NoValue, hton |-> NoValue,
                 ntoh |-> NoValue, round |-> NoValue]
        /\ opts = {}
        /\ pc = "endian"
        /\ quoted = <<>> /\ dec = <<>> /\ out0 = <<>> /\ fx = <<>>
        /\ ctx = <<>> /\ calls = <<>>

EndianCall(name) ==
    /\ pc = "endian"
    /\ name \notin opts
    /\ opts' = opts \cup {name}
    /\ UNCHANGED <<decVars, pc, ctx, env, calls>>

SwapCall ==
    /\ EndianCall("swap")
    /\ rc' = [rc EXCEPT
                 !.swap = STRING_BYTES_ENDIAN_CONVERT(env.x, hostBig),
                 !.swap2 = STRING_BYTES_ENDIAN_CONVERT(
                               STRING_BYTES_ENDIAN_CONVERT(env.x, hostBig), hostBig)]

HtonCall ==
    /\ EndianCall("hton")
    /\ rc' = [rc EXCEPT !.hton = tpm2_util_hton(env.x, hostBig)]

NtohCall ==
    /\ EndianCall("ntoh")
    /\ rc' = [rc EXCEPT !.ntoh = tpm2_util_ntoh(env.x, hostBig)]

RoundTripCall ==
    /\ EndianCall("round")
    /\ rc' = [rc EXCEPT !.round = tpm2_util_ntoh(tpm2_util_hton(env.x, hostBig), hostBig)]

NextEndian ==
    \/ SwapCall
    \/ HtonCall
    \/ NtohCall
    \/ RoundTripCall

SpecEndian == InitEndian /\ [][NextEndian]_vars

Reversed(x) == [k \in 1..Len(x) |-> x[Len(x) + 1 - k]]

\* C18: ntoh(hton(x)) = x for every value of 16, 32 and 64 bits, on a
\* big-endian and on a little-endian host.
C18_RoundTrip == "round" \in opts => rc.round = env.x

\* The round trip of a 64-bit value that is not its own reverse, on a
\* little-endian host, where both conversions swap.
C18_Witness ==
    /\ "round" \in opts /\ "hton" \in opts
    /\ ~hostBig
    /\ Len(env.x) = 8
    /\ rc.hton # env.x
    /\ rc.round = env.x

\* C19: hton(x) and ntoh(x) are the same value: x on a big-endian host, x
\* with its bytes reversed on a little-endian host.
C19_HtonIsNtoh ==
    /\ "hton" \in opts => rc.hton = (IF hostBig THEN env.x ELSE Reversed(env.x))
    /\ "ntoh" \in opts => rc.ntoh = (IF hostBig THEN env.x ELSE Reversed(env.x))
    /\ ("hton" \in opts /\ "ntoh" \in opts) => rc.hton = rc.ntoh

\* Both calls made on a big-endian host on a value that differs from its reverse.
C19_Witness ==
    /\ "hton" \in opts /\ "ntoh" \in opts
    /\ hostBig
    /\ Reversed(env.x) # env.x
    /\ rc.hton = env.x

\* C20: endian_swap(x) is x with its bytes in reversed order, byte k of the
\* result being byte w/8-1-k of x, on either host; swap(swap(x)) = x.
C20_SwapReverses ==
    "swap" \in opts =>
        /\ Len(rc.swap) = Len(env.x)
        /\ \A k \in 1..Len(env.x) : rc.swap[k] = env.x[Len(env.x) + 1 - k]
        /\ rc.swap2 = env.x

\* A 32-bit value swapped on a big-endian host.
C20_Witness ==
    /\ "swap" \in opts
    /\ hostBig
    /\ env.x = <<0, 1, 255, 255>>
    /\ rc.swap = <<255, 255, 1, 0>>

----------------------------------------------------------------------------
(* tpm2_util_concat_buffer: appends to one TPM2B_MAX_BUFFER. ctx holds the  *)
(* result buffer, out0 the buffer as it was before the last call, calls the *)
(* appended buffers and what each call returned, rc the last value returned.*)

\* sizeof(result->buffer) of a TPM2B_MAX_BUFFER
TPM2_MAX_DIGEST_BUFFER == 1024

\* One more than the largest UINT16
UINT16_RANGE == 65536

\* The sum taken in 16 bits, with no test for a sum below result->size.
tpm2_util_concat_buffer_Wrap16(result, append) ==
    LET sum == (result.size + append.size) % UINT16_RANGE
    IN  IF sum > TPM2_MAX_DIGEST_BUFFER
        THEN [ret |-> FALSE, result |-> result]
        ELSE [ret |-> TRUE,
              result |-> [size |-> sum,
                          buffer |-> [k \in 1..TPM2_MAX_DIGEST_BUFFER |->
                              IF k > result.size /\ k <= sum
                              THEN append.buffer[k - result.size]
                              ELSE result.buffer[k]]]]

\* memcpy(&result->buffer[0], ...)
tpm2_util_concat_buffer_AtStart(result, append) ==
    LET sum == result.size + append.size
    IN  IF sum < result.size \/ sum > TPM2_MAX_DIGEST_BUFFER
        THEN [ret |-> FALSE, result |-> result]
        ELSE [ret |-> TRUE,
              result |-> [size |-> sum % UINT16_RANGE,
                          buffer |-> [k \in 1..TPM2_MAX_DIGEST_BUFFER |->
                              IF k <= append.size THEN append.buffer[k]
                              ELSE result.buffer[k]]]]

\* The two sizes are UINT16 and are added as int; the new size is stored in
\* a UINT16.
tpm2_util_concat_buffer(result, append) ==
    LET sum == result.size + append.size
    IN  IF sum < result.size
        THEN [ret |-> FALSE, result |-> result]
        ELSE IF sum > TPM2_MAX_DIGEST_BUFFER
        THEN [ret |-> FALSE, result |-> result]
        ELSE [ret |-> TRUE,
              result |-> [size |-> sum % UINT16_RANGE,
                          buffer |-> [k \in 1..TPM2_MAX_DIGEST_BUFFER |->
                              IF k > result.size /\ k <= sum
                              THEN append.buffer[k - result.size]
                              ELSE result.buffer[k]]]]

MaxCalls == 3

\* The sizes of the buffers appended, and the byte that fills each.
AppendShapes ==
    {[size |-> 0, fill |-> 1]}
    \cup {[size |-> n, fill |-> v] : n \in {1, 2}, v \in {1, 2}}
    \cup {[size |-> n, fill |-> 3] :
             n \in {TPM2_MAX_DIGEST_BUFFER - 2, TPM2_MAX_DIGEST_BUFFER - 1,
                    TPM2_MAX_DIGEST_BUFFER + 1, UINT16_RANGE - 1}}

AppendBuffer(a) == [size |-> a.size, buffer |-> Fill(a.size, a.fill)]

EmptyResult == [size |-> 0, buffer |-> Zeros(TPM2_MAX_DIGEST_BUFFER)]

InitConcat ==
    /\ ctx = EmptyResult
    /\ out0 = EmptyResult
    /\ calls = <<>>
    /\ rc = FALSE
    /\ pc = "concat"
    /\ quoted = <<>> /\ hostBig = FALSE /\ dec = <<>> /\ fx = <<>>
    /\ opts = {} /\ env = <<>>

ConcatCall ==
    /\ pc = "concat"
    /\ Len(calls) < MaxCalls
    /\ \E a \in AppendShapes :
          LET r == tpm2_util_concat_buffer(ctx, AppendBuffer(a))
          IN  /\ ctx' = r.result
              /\ rc' = r.ret
              /\ out0' = ctx
              /\ calls' = Append(calls, [append |-> a, ret |-> r.ret])
    /\ UNCHANGED <<quoted, hostBig, dec, fx, pc, opts, env>>

NextConcat == ConcatCall

SpecConcat == InitConcat /\ [][NextConcat]_vars

LastAppend == calls[Len(calls)].append

\* C21: a call returns true exactly when result.size + append.size, as a
\* sum of naturals, is at most TPM2_MAX_DIGEST_BUFFER; a call that returns
\* false leaves the size and the bytes of result as they were; a call that
\* returns true leaves the old bytes followed by the appended ones, the
\* size being the sum.
C21_ConcatWithinCapacity ==
    calls # <<>> =>
        /\ rc = (out0.size + LastAppend.size <= TPM2_MAX_DIGEST_BUFFER)
        /\ ~rc => ctx = out0
        /\ rc => /\ ctx.size = out0.size + LastAppend.size
                 /\ Held(ctx) = Held(out0) \o Fill(LastAppend.size, LastAppend.fill)

\* A buffer holding 1023 bytes was offered 65535 more, a sum that wraps in
\* 16 bits to 1022, and the call returned false.
C21_Witness ==
    /\ calls # <<>>
    /\ out0.size = TPM2_MAX_DIGEST_BUFFER - 1
    /\ LastAppend.size = UINT16_RANGE - 1
    /\ ~rc
    /\ ctx = out0

RECURSIVE Accepted(_)
\* The appended buffers whose call returned true, end to end in call order.
Accepted(cs) ==
    IF cs = <<>> THEN <<>>
    ELSE LET last == cs[Len(cs)]
             before == Accepted(SubSeq(cs, 1, Len(cs) - 1))
         IN  IF last.ret THEN before \o Fill(last.append.size, last.append.fill)
             ELSE before

\* C29: from an empty result, after any sequence of calls the size is at
\* most TPM2_MAX_DIGEST_BUFFER and the contents are the buffers of the calls
\* that returned true, in call order; a failed call changes nothing.
C29_ConcatenationOfAccepted ==
    /\ ctx.size <= TPM2_MAX_DIGEST_BUFFER
    /\ ctx.size = Len(Accepted(calls))
    /\ Held(ctx) = Accepted(calls)
    /\ (calls # <<>> /\ ~calls[Len(calls)].ret) => ctx = out0

\* Three calls, the second of which failed, the first and third appending
\* bytes that differ.
C29_Witness ==
    /\ Len(calls) = 3
    /\ calls[1].ret /\ ~calls[2].ret /\ calls[3].ret
    /\ calls[1].append.size = 2 /\ calls[3].append.size = 1
    /\ calls[1].append.fill # calls[3].append.fill
    /\ Held(ctx) = <<calls[1].append.fill, calls[1].append.fill, calls[3].append.fill>>

----------------------------------------------------------------------------
(* Further properties of the decoder, checked under SpecDecode *)

\* The 16-bit big-endian number at offset k of the blob.
PrefixAt(k) == Rd(quoted, k) * 256 + Rd(quoted, k + 1)

\* The declared length of the qualified name, which starts at offset 6.
NameDeclared == PrefixAt(6)

ExtraPrefix == 6 + 2 + NameDeclared

NameOverruns == 6 + 2 + NameDeclared > quoted.size

ExtraOverruns == ExtraPrefix + 2 + PrefixAt(ExtraPrefix) > quoted.size

\* C22: a blob in which the length prefix of the qualified name, of the
\* extra data or of the digest declares more bytes than remain after that
\* prefix is not decoded: a call that returns true read all three prefixes,
\* and each declared length fits in what remains.
C22_OverrunningPrefixFails ==
    /\ (Returned /\ dec.ret) =>
           /\ ~NameOverruns
           /\ ~ExtraOverruns
           /\ dec.i + PrefixAt(dec.i - 2) <= quoted.size
    /\ (Returned /\ HeaderGood /\ quoted.size > 8 /\ NameOverruns) =>
           (~dec.ret /\ dec.err = "Malformed TPM2B_DATA value")

\* A name whose declared length is 65535: the name step passed it, the
\* extra-data step rejected the blob.
C22_Witness ==
    /\ fx.edit.kind = "max" /\ fx.edit.at = 6
    /\ NameDeclared = 65535 /\ NameOverruns
    /\ Returned /\ ~dec.ret
    /\ dec.nreads = 3
    /\ dec.err = "Malformed TPM2B_DATA value"

\* The step taken from this state ends the call with false.
RejectsNext == dec'.pc = "ret" /\ ~dec'.ret

\* What the step about to be taken tests: the end of the header it reads,
\* or the end of the block it skips, against the size of the blob.
HeaderEndsAtOrPast ==
    \/ dec.pc \in {"name", "extra", "digest"} /\ dec.i + 2 >= quoted.size
    \/ dec.pc = "selcount" /\ dec.i + 4 >= quoted.size
    \/ /\ dec.pc = "sel" /\ CountAbove(dec.pcrSelCount, dec.j)
       /\ \/ dec.i + 2 >= quoted.size
          \/ dec.i + 2 + 1 >= quoted.size

SkipEndsAtOrPast ==
    \/ dec.pc = "clock" /\ dec.i + 17 >= quoted.size
    \/ dec.pc = "fw" /\ dec.i + 8 >= quoted.size
    \/ /\ dec.pc = "sel" /\ CountAbove(dec.pcrSelCount, dec.j)
       /\ dec.i + 3 + Rd(quoted, dec.i + 2) >= quoted.size

\* C23: before each header read the blob is rejected when offset + width
\* >= size, and after each skipped block when offset >= size, so a header
\* or a block that ends exactly at the last byte is rejected; a quote that
\* ends in a zero-length digest with no byte after it is rejected.
C23_StrictBounds ==
    /\ [][(HeaderEndsAtOrPast \/ SkipEndsAtOrPast) => RejectsNext]_vars
    /\ [](/\ fx.edit.kind = "none" /\ fx.f.digest = <<>> /\ fx.f.trail = <<>>
          /\ Returned
          => ~dec.ret)

\* An intact quote that ends in a zero-length digest: the digest header
\* ends at the last byte and the blob was rejected there.
C23_Witness ==
    /\ fx.edit.kind = "none" /\ fx.f.digest = <<>> /\ fx.f.trail = <<>>
    /\ Returned /\ ~dec.ret
    /\ dec.i + 2 = quoted.size
    /\ dec.err = "Malformed TPM2B_DIGEST value"

\* An intact quote with no byte after a digest of one byte or more.
EndsInDigest == fx.edit.kind = "none" /\ fx.f.trail = <<>> /\ Len(fx.f.digest) >= 1

\* C24: the digest may end exactly at the last byte of the blob: a quote
\* whose digest of n >= 1 bytes is followed by no byte is decoded, and the
\* digest output holds exactly those n bytes.
C24_DigestMayEndAtLastByte ==
    (EndsInDigest /\ Returned) =>
        /\ dec.ret
        /\ dec.digest.size = Len(fx.f.digest)
        /\ Held(dec.digest) = fx.f.digest

\* The same for the digests that the output can hold.
C24_WithinCapacity ==
    (EndsInDigest /\ Len(fx.f.digest) <= DIGEST_CAP /\ Returned) =>
        /\ dec.ret
        /\ dec.readEnd = quoted.size
        /\ dec.digest.size = Len(fx.f.digest)
        /\ Held(dec.digest) = fx.f.digest

\* C25: the decoder never copies more bytes into the extraData output or
\* into the digest output than the buffer of that output holds: a declared
\* length above the capacity is rejected, not copied.
C25_CopiesWithinCapacity ==
    /\ dec.pastExtra = <<>>
    /\ dec.pastDigest = <<>>
    /\ (Returned /\ dec.ret) =>
           /\ dec.extraData.size <= DATA_CAP
           /\ dec.digest.size <= DIGEST_CAP

----------------------------------------------------------------------------
(* Further properties of a run, checked under SpecRun *)

\* C26: the hash algorithm handed to RSA_verify, which is the one of the
\* loaded signature, is the algorithm the message digest was computed with,
\* which is the one given with -g; a run in which the two differ is not
\* accepted.
C26_VerifyUnderMessageHash ==
    /\ Invoked("RSA_verify") => env.rsa.type = HalgId(ctx.halg)
    /\ rc.code = "success" => env.sig.hash = ctx.halg

\* The same, first part, for runs given the signature in plain format.
C26_PlainFormat ==
    (Invoked("RSA_verify") /\ ctx.flags.fmt /\ dec.pastExtra = <<>> /\ dec.pastDigest = <<>>)
        => env.rsa.type = HalgId(ctx.halg)

\* C28: the offset of the decoder, a 32-bit unsigned number, never wraps:
\* at every step it is at most the blob size + 65535 + 2, which is below
\* 2^17, also after a name, extra-data or digest length of 65535 and a
\* bitmap size of 255; so is every sum of the offset and a width or a length
\* that a bounds test compares with the size.
C28_OffsetNeverWraps ==
    /\ quoted.size <= 65535
    /\ dec.i <= quoted.size + 65535 + 2
    /\ dec.i < 131072
    /\ (dec.pc \in {"extra", "digest"} /\ dec.i + 2 < quoted.size) =>
           dec.i + 2 + PrefixAt(dec.i) <= quoted.size + 65535 + 2
    /\ dec.readEnd <= quoted.size + 65535 + 2

\* A name of declared length 65535 was skipped: the offset is past 65535.
C28_Witness ==
    /\ fx.edit.kind = "max" /\ fx.edit.at = 6
    /\ dec.pc = "extra"
    /\ dec.i = 6 + 2 + 65535
    /\ dec.i > quoted.size

----------------------------------------------------------------------------
(* Termination of the decoder: a call, once made, runs its steps to the    *)
(* end. The blobs are the quotes with an empty name and no extra data,     *)
(* with every list of selections, left intact, cut, altered in a byte or   *)
(* with a prefix or the count of selections set to its largest value.      *)

LoopFixtures == Fixture({<<>>}, {<<>>}, SelLists, {<<>>, <<170>>}, Trails)

InitLoop ==
    \E f \in LoopFixtures, big \in BOOLEAN :
        \E e \in Edits(f) :
            /\ fx = [f |-> f, edit |-> e]
            /\ quoted = Edited(f, e)
            /\ hostBig = big
            /\ out0 = [digest |-> FreshDigest, extraData |-> FreshData]
            /\ dec = DecStart(FreshDigest, FreshData)
            /\ pc = "off" /\ ctx = <<>> /\ opts = {} /\ env = <<>> /\ calls = <<>>
            /\ rc = [code |-> "none", err |-> ""]

\* The steps of one call are taken one after the other until it returns.
SpecDecodeFair == InitLoop /\ [][NextDecode]_vars /\ WF_vars(NextDecode)

\* C27: the decoder returns on every blob, whatever count of selections the
\* blob declares: an iteration of the selection loop that does not return
\* advances the offset by at least 3 and leaves it below the size, so the
\* loop makes at most size/3 iterations.
C27_DecodeTerminates ==
    /\ [][(dec.pc = "sel" /\ dec'.pc = "sel") =>
              (dec'.i >= dec.i + 3 /\ dec'.j = dec.j + 1)]_vars
    /\ [](dec.pc = "sel" => (dec.i < quoted.size /\ 3 * dec.j <= dec.i))
    /\ [](3 * dec.j <= quoted.size)
    /\ <>Returned

\* A blob declaring 0xFFFFFFFF selections: the loop made an iteration and
\* the call returned false in the next.
C27_Witness ==
    /\ fx.edit.kind = "max" /\ fx.edit.at = SelCountOffset(fx.f)
    /\ dec.pcrSelCount = <<255, 255, 255, 255>>
    /\ dec.j >= 1
    /\ Returned /\ ~dec.ret
    /\ dec.err = "Malformed TPMS_PCR_SELECTION value"

----------------------------------------------------------------------------
(* tpm2_util_hex_to_byte_structure on strings, called directly and from the *)
(* option -q. env holds the arguments, rc what a direct call returned and   *)
(* left in *byteLength and byteBuffer, ctx the extraData and the flag that  *)
(* -q sets, opts the calls made.                                            *)

MaxHex == 4

HexChars == {"0", "9", "a", "F", "g"}

HexStrings == UNION {[1..n -> HexChars] : n \in 0..MaxHex}

\* The buffer handed in, and the values *byteLength can have at the call.
HexBuffer == Fill(MaxHex \div 2 + 1, 238)

HexCapacities == 0..Len(HexBuffer)

InitHex ==
    \E inStr \in HexStrings, cap \in HexCapacities :
        /\ env = [inStr |-> inStr, byteLength |-> cap, byteBuffer |-> HexBuffer]
        /\ rc = [ret |-> 1, byteLength |-> cap, byteBuffer |-> HexBuffer]
        /\ ctx = [extraData |-> [size |-> 0, buffer |-> Fill(DATA_CAP, 238)],
                  flags |-> [extra |-> FALSE], taken |-> FALSE]
        /\ opts = {}
        /\ pc = "hex"
        /\ quoted = <<>> /\ hostBig = FALSE /\ dec = <<>> /\ out0 = <<>> /\ fx = <<>>
        /\ calls = <<>>

HexCall ==
    /\ pc = "hex"
    /\ "call" \notin opts
    /\ opts' = opts \cup {"call"}
    /\ rc' = tpm2_util_hex_to_byte_structure(env.inStr, env.byteLength, env.byteBuffer)
    /\ UNCHANGED <<decVars, pc, ctx, env, calls>>

\* on_option, case 'q'
HexOption ==
    /\ pc = "hex"
    /\ "q" \notin opts
    /\ opts' = opts \cup {"q"}
    /\ LET r == tpm2_util_hex_to_byte_structure(env.inStr, DATA_CAP, ctx.extraData.buffer)
           x == [size |-> r.byteLength, buffer |-> r.byteBuffer]
       IN  IF r.ret # 0
               THEN ctx' = [ctx EXCEPT !.extraData = x, !.taken = FALSE]
               ELSE ctx' = [ctx EXCEPT !.extraData = x, !.flags.extra = TRUE, !.taken = TRUE]
    /\ UNCHANGED <<decVars, pc, env, rc, calls>>

NextHex ==
    \/ HexCall
    \/ HexOption

SpecHex == InitHex /\ [][NextHex]_vars

\* The value of a character as a digit of base 16, by its place among the
\* digits; 16 for a character that is none.
DigitsInOrder ==
    <<{"0"}, {"1"}, {"2"}, {"3"}, {"4"}, {"5"}, {"6"}, {"7"}, {"8"}, {"9"},
      {"a", "A"}, {"b", "B"}, {"c", "C"}, {"d", "D"}, {"e", "E"}, {"f", "F"}>>

DigitValue(c) ==
    IF \E v \in 1..16 : c \in DigitsInOrder[v]
    THEN (CHOOSE v \in 1..16 : c \in DigitsInOrder[v]) - 1
    ELSE 16

HexWellFormed(inStr, cap) ==
    /\ Len(inStr) % 2 = 0
    /\ \A k \in 1..Len(inStr) : DigitValue(inStr[k]) < 16
    /\ Len(inStr) \div 2 <= cap

\* C30: the call returns 0 exactly when the string has even length, holds
\* hex digits only and length/2 is at most the capacity in *byteLength; it
\* then leaves length/2 in *byteLength and in byte k the value of digits 2k
\* and 2k+1. Every other call returns -2, -3 or -4 and leaves *byteLength
\* and the buffer as they were, and -q does not enable the nonce check.
C30_HexParse ==
    /\ "call" \in opts =>
           /\ (rc.ret = 0) = HexWellFormed(env.inStr, env.byteLength)
           /\ rc.ret = 0 =>
                  /\ rc.byteLength = Len(env.inStr) \div 2
                  /\ \A k \in 1..rc.byteLength :
                         rc.byteBuffer[k] =
                             16 * DigitValue(env.inStr[2 * k - 1]) + DigitValue(env.inStr[2 * k])
                  /\ \A k \in (rc.byteLength + 1)..Len(env.byteBuffer) :
                         rc.byteBuffer[k] = env.byteBuffer[k]
           /\ rc.ret # 0 =>
                  /\ rc.ret \in {-2, -3, -4}
                  /\ rc.byteLength = env.byteLength
                  /\ rc.byteBuffer = env.byteBuffer
    /\ "q" \in opts =>
           /\ ctx.flags.extra = HexWellFormed(env.inStr, DATA_CAP)
           /\ ctx.taken = ctx.flags.extra
           /\ ctx.flags.extra =>
                  /\ ctx.extraData.size = Len(env.inStr) \div 2
                  /\ \A k \in 1..ctx.extraData.size :
                         ctx.extraData.buffer[k] =
                             16 * DigitValue(env.inStr[2 * k - 1]) + DigitValue(env.inStr[2 * k])
           /\ ~ctx.flags.extra => ctx.extraData.buffer = Fill(DATA_CAP, 238)

\* Four hex digits, upper and lower case, parsed with a capacity of two
\* into a buffer of three bytes.
C30_Witness ==
    /\ "call" \in opts
    /\ env.inStr = <<"a", "F", "9", "0">>
    /\ env.byteLength = 2
    /\ rc.ret = 0
    /\ rc.byteBuffer = <<175, 144, 238>>

====
